---------------------------- MODULE Spec2Model ----------------------------
(***************************************************************************)
(* Registration front end of wallabag-kindle-consumer (interface.py):      *)
(* Validator, ViewBase and IndexView.post, run by several concurrent       *)
(* requests on one asyncio loop against one user store.                    *)
(*                                                                         *)
(* A Python str is modelled as a sequence of tokens (<<>> is the empty     *)
(* string); a dict as a function whose DOMAIN is the set of its keys.      *)
(* One action is one atomic stretch of a coroutine: the code between two   *)
(* suspension points (await) of the cooperative scheduler.                 *)
(***************************************************************************)
EXTENDS Integers, Sequences, FiniteSets, Bags, TLC

(* ------------------------------ bounds -------------------------------- *)

\* Number of registration requests in flight on the loop.
NumRequests == 2

Requests == 1..NumRequests

(* ------------------------------ values -------------------------------- *)

\* Optional[str]: None, or a str s held as Some(s).
None == << >>
Some(s) == <<s>>

EmptyDict == [k \in {} |-> << >>]

\* dict.update() as it would be if it were an assignment (`d = e`).
Update_Assigns(d, e) == e

\* dict.update(): the keys of e are added to d, overwriting.
Update(d, e) ==
    [k \in (DOMAIN d) \cup (DOMAIN e) |-> IF k \in DOMAIN e THEN e[k] ELSE d[k]]

\* str.endswith()
EndsWith(s, suffix) ==
    /\ Len(suffix) <= Len(s)
    /\ SubSeq(s, Len(s) - Len(suffix) + 1, Len(s)) = suffix

AtKindleCom     == <<"@", "kindle", ".", "com">>
AtFreeKindleCom == <<"@", "free", ".", "kindle", ".", "com">>

\* The messages of the source, by the line that sets them.
MsgUsername     == "Username not given or empty"
MsgPassword     == "Password not given or empty"
MsgKindleEmpty  == "Kindle email address not given or empty"
MsgKindleDomain == "Given Kindle email does not end with @kindle.com or @free.kindle.com"
MsgKindleValid  == "Kindle email is not a valid email address"
MsgNotifyEmpty  == "Notification email not given or empty"
MsgNotifyValid  == "Notification email is not a valid email address"
MsgUser         == "User is already registered"
MsgAuth         == "Cannot authenticate at wallabag server to get a token"
MsgRegistered   == "User successfully registered"

FieldKeys == {"username", "password", "kindleEmail", "notifyEmail"}
StageKeys == {"user", "auth"}

(* --------------------- email_validator.validate_email ------------------ *)

EmailNotValidError == [raises |-> TRUE, email |-> << >>]
Returns(e) == [raises |-> FALSE, email |-> e]

Lower(t) ==
    CASE t = "KINDLE" -> "kindle"
      [] t = "COM"    -> "com"
      [] t = "FREE"   -> "free"
      [] OTHER        -> t

IsAtom(t) == t \notin {"@", ".", " "}

AtPositions(a) == {i \in 1..Len(a) : a[i] = "@"}

LocalPart(a)  == SubSeq(a, 1, (CHOOSE i \in AtPositions(a) : TRUE) - 1)
DomainPart(a) == SubSeq(a, (CHOOSE i \in AtPositions(a) : TRUE) + 1, Len(a))

\* atom ("." atom)*
DotAtom(s) ==
    /\ Len(s) % 2 = 1
    /\ \A i \in 1..Len(s) : IF i % 2 = 1 THEN IsAtom(s[i]) ELSE s[i] = "."

\* Syntax rule of validate_email: exactly one @, a dot-atom local part, a
\* dotted domain with at least two labels.
SyntaxValid(a) ==
    /\ Cardinality(AtPositions(a)) = 1
    /\ DotAtom(LocalPart(a))
    /\ DotAtom(DomainPart(a))
    /\ Len(DomainPart(a)) >= 3

\* val['email']: the local part as given, the domain in lower case.
Normalized(a) ==
    LocalPart(a) \o <<"@">> \o [i \in 1..Len(DomainPart(a)) |-> Lower(DomainPart(a)[i])]

\* What the executor's validate_email(address) can produce: the normalised
\* address, or EmailNotValidError (bad syntax, or a domain that the
\* deliverability lookup does not resolve).
validate_email(a) ==
    IF SyntaxValid(a) THEN {Returns(Normalized(a)), EmailNotValidError}
    ELSE {EmailNotValidError}

(* ---------------------------- submissions ------------------------------ *)

Usernames    == {<<>>, <<"alice">>, <<"bob">>}
Passwords    == {<<>>, <<"secret">>}
AliceKindle  == <<"alice", "@", "kindle", ".", "com">>
AliceFree    == <<"al", ".", "ice", "@", "free", ".", "kindle", ".", "com">>
BobKindle    == <<"Bob", "@", "KINDLE", ".", "COM">>
KindleEmails == {<<>>,
                 <<"alice">>,
                 <<"alice", "@", "example", ".", "com">>,
                 AliceKindle, AliceFree, BobKindle}
NotifyEmails == {<<>>,
                 <<"alice", "@", "@", "example", ".", "com">>,
                 <<"alice", "@", "example", ".", "com">>}

FieldValues == [username |-> Usernames, password |-> Passwords,
                kindleEmail |-> KindleEmails, notifyEmail |-> NotifyEmails]

\* Every form the request can post: any subset of the four fields, each
\* with one of its values.
AllSubmissions ==
    UNION {{d \in [K -> UNION {FieldValues[k] : k \in FieldKeys}] :
               \A k \in K : d[k] \in FieldValues[k]} : K \in SUBSET FieldKeys}

\* The forms posted while several requests run together: a complete form
\* (which several requests may post), one for another username, and one
\* that fails both validations.
Submissions ==
    {d \in AllSubmissions :
        \/ /\ DOMAIN d = FieldKeys
           /\ d.password = <<"secret">>
           /\ d.notifyEmail = <<"alice", "@", "example", ".", "com">>
           /\ \/ d.username = <<"alice">> /\ d.kindleEmail = AliceKindle
              \/ d.username = <<"bob">> /\ d.kindleEmail = BobKindle
        \/ /\ DOMAIN d = FieldKeys
           /\ d.username = <<"alice">>
           /\ d.password = << >>
           /\ d.kindleEmail = <<"alice", "@", "example", ".", "com">>
           /\ d.notifyEmail = <<"alice", "@", "@", "example", ".", "com">>}

(* ------------------------------- state --------------------------------- *)

VARIABLES
    pc,         \* where post() of each request stands: "start" (before the
                \* form is read), "gather" (line 120), "get_token" (line 131),
                \* "done"
    task,       \* the two coroutines of the gather: emails is "start",
                \* "kindle" (line 49), "notify" (line 61) or "done";
                \* credentials is "start" or "done"
    errors,     \* the local dict `errors` of validate_emails across its awaits
    validator,  \* the Validator of each request
    view,       \* _errors, _data and _messages of each request's view
    users,      \* the rows of the user table, a bag
    result,     \* how post() ended: "none" (running), "response", "exception"
    checked,    \* history: the fields whose value went to _validate_email
    validated,  \* history: what validate_email gave for each such field
    trace       \* history: what post() did after the gather, in order

vars == <<pc, task, errors, validator, view, users, result, checked, validated,
          trace>>

\* Validator.__init__
NewValidator(data) ==
    [data |-> data, errors |-> EmptyDict, username |-> None, password |-> None,
     kindle_email |-> None, notify_email |-> None]

\* ViewBase.__init__
NewView == [_errors |-> EmptyDict, _data |-> EmptyDict, _messages |-> << >>]

Init ==
    /\ pc = [r \in Requests |-> "start"]
    /\ task = [r \in Requests |-> [emails |-> "start", credentials |-> "start"]]
    /\ errors = [r \in Requests |-> EmptyDict]
    /\ validator = [r \in Requests |-> NewValidator(EmptyDict)]
    /\ view = [r \in Requests |-> NewView]
    /\ users = EmptyBag
    /\ result = [r \in Requests |-> "none"]
    /\ checked = [r \in Requests |-> {}]
    /\ validated = [r \in Requests |-> EmptyDict]
    /\ trace = [r \in Requests |-> << >>]

(* ------------------------------ Validator ------------------------------ *)

\* The presence test without its length test.
Missing_AbsentOnly(data, key) == key \notin DOMAIN data

\* `key not in self.data or 0 == len(self.data[key])`
Missing(data, key) == key \notin DOMAIN data \/ Len(data[key]) = 0

\* success as it would be if it looked at the credential errors alone.
success_CredentialsOnly(v) == DOMAIN v.errors \cap {"username", "password"} = {}

\* Validator.success
success(v) == DOMAIN v.errors = {}

\* validate_credentials, which never suspends.
CredentialsChecked(v) ==
    LET e1 == IF Missing(v.data, "username")
              THEN Update(EmptyDict, [username |-> MsgUsername]) ELSE EmptyDict
        e2 == IF Missing(v.data, "password")
              THEN Update(e1, [password |-> MsgPassword]) ELSE e1
    IN  [v EXCEPT !.username = IF Missing(v.data, "username") THEN @
                               ELSE Some(v.data["username"]),
                  !.password = IF Missing(v.data, "password") THEN @
                               ELSE Some(v.data["password"]),
                  !.errors = Update(@, e2)]

ValidateCredentials(r) ==
    /\ pc[r] = "gather"
    /\ task[r].credentials = "start"
    /\ validator' = [validator EXCEPT ![r] = CredentialsChecked(@)]
    /\ task' = [task EXCEPT ![r].credentials = "done"]
    /\ UNCHANGED <<pc, errors, view, users, result, checked, validated, trace>>

\* validate_emails from line 57 on, with `errs` the local errors so far:
\* either it ends (line 65) or it suspends in _validate_email (line 61).
NotifyEmailStep(r, v, errs) ==
    IF Missing(v.data, "notifyEmail")
    THEN /\ validator' = [validator EXCEPT ![r] =
                [v EXCEPT !.errors =
                    Update(@, Update(errs, [notifyEmail |-> MsgNotifyEmpty]))]]
         /\ task' = [task EXCEPT ![r].emails = "done"]
         /\ errors' = [errors EXCEPT ![r] = EmptyDict]
         /\ UNCHANGED checked
    ELSE /\ validator' = [validator EXCEPT ![r] = v]
         /\ task' = [task EXCEPT ![r].emails = "notify"]
         /\ errors' = [errors EXCEPT ![r] = errs]
         /\ checked' = [checked EXCEPT ![r] = @ \cup {"notifyEmail"}]

\* validate_emails up to its first await, or to its end when both
\* addresses are missing.
ValidateEmailsStart(r) ==
    /\ pc[r] = "gather"
    /\ task[r].emails = "start"
    /\ IF Missing(validator[r].data, "kindleEmail")
       THEN NotifyEmailStep(r, validator[r], [kindleEmail |-> MsgKindleEmpty])
       ELSE /\ task' = [task EXCEPT ![r].emails = "kindle"]
            /\ checked' = [checked EXCEPT ![r] = @ \cup {"kindleEmail"}]
            /\ UNCHANGED <<errors, validator>>
    /\ UNCHANGED <<pc, view, users, result, validated, trace>>

\* Lines 50-55 with kindle_email assigned before the suffix test.
KindleChecked_AssignsFirst(v, val) ==
    IF val.raises
    THEN [v |-> v, errs |-> [kindleEmail |-> MsgKindleValid]]
    ELSE IF EndsWith(val.email, AtKindleCom) \/ EndsWith(val.email, AtFreeKindleCom)
         THEN [v |-> [v EXCEPT !.kindle_email = Some(val.email)], errs |-> EmptyDict]
         ELSE [v |-> [v EXCEPT !.kindle_email = Some(val.email)],
               errs |-> [kindleEmail |-> MsgKindleDomain]]

\* Lines 50-55 with the two messages of the kindleEmail check exchanged.
KindleChecked_MessagesSwapped(v, val) ==
    IF val.raises
    THEN [v |-> v, errs |-> [kindleEmail |-> MsgKindleDomain]]
    ELSE IF EndsWith(val.email, AtKindleCom) \/ EndsWith(val.email, AtFreeKindleCom)
         THEN [v |-> [v EXCEPT !.kindle_email = Some(val.email)], errs |-> EmptyDict]
         ELSE [v |-> v, errs |-> [kindleEmail |-> MsgKindleValid]]

\* Lines 50-55: what the kindleEmail check leaves in (kindle_email, errors).
KindleChecked(v, val) ==
    IF val.raises
    THEN [v |-> v, errs |-> [kindleEmail |-> MsgKindleValid]]
    ELSE IF EndsWith(val.email, AtKindleCom) \/ EndsWith(val.email, AtFreeKindleCom)
         THEN [v |-> [v EXCEPT !.kindle_email = Some(val.email)], errs |-> EmptyDict]
         ELSE [v |-> v, errs |-> [kindleEmail |-> MsgKindleDomain]]

\* The executor returns the kindleEmail check: lines 49-61.
KindleEmailValidated(r, val) ==
    /\ pc[r] = "gather"
    /\ task[r].emails = "kindle"
    /\ val \in validate_email(validator[r].data["kindleEmail"])
    /\ LET k == KindleChecked(validator[r], val)
       IN  NotifyEmailStep(r, k.v, Update(errors[r], k.errs))
    /\ validated' = [validated EXCEPT ![r] = ("kindleEmail" :> val) @@ @]
    /\ UNCHANGED <<pc, view, users, result, trace>>

\* Lines 61-63: what the notifyEmail check leaves in (notify_email, errors).
NotifyChecked(v, val) ==
    IF val.raises
    THEN [v |-> v, errs |-> [notifyEmail |-> MsgNotifyValid]]
    ELSE [v |-> [v EXCEPT !.notify_email = Some(val.email)], errs |-> EmptyDict]

\* The executor returns the notifyEmail check: lines 61-66.
NotifyEmailValidated(r, val) ==
    /\ pc[r] = "gather"
    /\ task[r].emails = "notify"
    /\ val \in validate_email(validator[r].data["notifyEmail"])
    /\ LET n == NotifyChecked(validator[r], val)
       IN  validator' = [validator EXCEPT ![r] =
                [n.v EXCEPT !.errors = Update(@, Update(errors[r], n.errs))]]
    /\ task' = [task EXCEPT ![r].emails = "done"]
    /\ errors' = [errors EXCEPT ![r] = EmptyDict]
    /\ validated' = [validated EXCEPT ![r] = ("notifyEmail" :> val) @@ @]
    /\ UNCHANGED <<pc, view, users, result, checked, trace>>

(* --------------------- collaborators of IndexView.post ----------------- *)

\* The constructor call with its two addresses exchanged.
User_AddressesSwapped(v) ==
    [name |-> v.username, kindle_mail |-> v.notify_email, email |-> v.kindle_email]

\* models.User(name=..., kindle_mail=..., email=...)
User(v) == [name |-> v.username, kindle_mail |-> v.kindle_email, email |-> v.notify_email]

\* session.query(models.User.name).filter(models.User.name == name).count()
UserCount(rows, name) ==
    LET found == {u \in BagToSet(rows) : u.name = name}
    IN  BagCardinality([u \in found |-> rows[u]])

\* The insert as it would be with session.merge: a row of the same name is
\* replaced.
Added_Merged(rows, u) ==
    LET kept == {x \in BagToSet(rows) : x.name # u.name}
    IN  [x \in kept |-> rows[x]] (+) SetToBag({u})

\* session.add(user); session.commit() when the store takes the row.
Added(rows, u) == rows (+) SetToBag({u})

\* How `await self._wallabag.get_token(user, password)` can end: a token,
\* a false value (the server refused), or an exception out of the call.
GetTokenOutcomes == {"token", "refused", "error"}

\* How session.add(user); session.commit() can end: the row is stored, or
\* the store rejects it and commit raises.
CommitOutcomes == {"stored", "rejected"}

(* ------------------------------ IndexView ------------------------------ *)

\* ViewBase._template: what the template is given.
_template(w) == [errors |-> w._errors, data |-> w._data, messages |-> w._messages]

\* ViewBase._add_errors
_add_errors(w, e) == [w EXCEPT !._errors = Update(@, e)]

\* Lines 115-118: the form is read, kept for the response and handed to a
\* new Validator; the gather starts both validations.
ReceivePost(r, data) ==
    /\ pc[r] = "start"
    /\ view' = [view EXCEPT ![r]._data = data]
    /\ validator' = [validator EXCEPT ![r] = NewValidator(data)]
    /\ pc' = [pc EXCEPT ![r] = "gather"]
    /\ UNCHANGED <<task, errors, users, result, checked, validated, trace>>

\* A join that waits for validate_credentials alone.
Gathered_CredentialsOnly(t) == t.credentials = "done"

\* asyncio.gather returns once both coroutines have returned.
Gathered(t) == t.emails = "done" /\ t.credentials = "done"

\* The query as it would be with `count() > 1`.
AlreadyRegistered_MoreThanOne(rows, v) == UserCount(rows, v.username) > 1

\* Line 129: the outcome of the uniqueness query.
AlreadyRegistered(rows, v) == UserCount(rows, v.username) # 0

\* Lines 122-131, up to the await of get_token: the errors are taken over,
\* and a valid form goes on to the uniqueness query and the token call.
PostAfterGather(r) ==
    /\ pc[r] = "gather"
    /\ Gathered(task[r])
    /\ LET w == _add_errors(view[r], validator[r].errors)
       IN  IF ~success(validator[r])
           THEN /\ view' = [view EXCEPT ![r] = w]
                /\ pc' = [pc EXCEPT ![r] = "done"]
                /\ result' = [result EXCEPT ![r] = "response"]
                /\ trace' = [trace EXCEPT ![r] = @ \o <<"gathered", "return">>]
           ELSE IF AlreadyRegistered(users, validator[r])
           THEN /\ view' = [view EXCEPT ![r] = _add_errors(w, [user |-> MsgUser])]
                /\ pc' = [pc EXCEPT ![r] = "done"]
                /\ result' = [result EXCEPT ![r] = "response"]
                /\ trace' = [trace EXCEPT ![r] =
                                @ \o <<"gathered", "query", "return">>]
           ELSE /\ view' = [view EXCEPT ![r] = w]
                /\ pc' = [pc EXCEPT ![r] = "get_token"]
                /\ trace' = [trace EXCEPT ![r] =
                                @ \o <<"gathered", "query", "get_token">>]
                /\ UNCHANGED result
    /\ UNCHANGED <<task, errors, validator, users, checked, validated>>

\* The test of line 131 without its `not`.
TokenGiven_Inverted(token) == token # "token"

\* `not await get_token(...)` is false: the call returned a true value.
TokenGiven(token) == token = "token"

TokenEvent(token) == IF token = "token" THEN "token" ELSE "no_token"

\* Line 136 without line 137: the form is not cleared.
Registered_KeepsData(w) == [w EXCEPT !._messages = Append(@, MsgRegistered)]

\* Lines 136-137: _add_message(...) and _set_data({}).
Registered(w) ==
    [w EXCEPT !._messages = Append(@, MsgRegistered), !._data = EmptyDict]

\* Lines 131-139 with the commit in a try/except that passes: a rejected
\* insert is followed by the message and the cleared form.
PostAfterToken_SwallowsCommitError(r, token, commit) ==
    /\ pc[r] = "get_token"
    /\ pc' = [pc EXCEPT ![r] = "done"]
    /\ IF token = "error"
       THEN /\ result' = [result EXCEPT ![r] = "exception"]
            /\ trace' = [trace EXCEPT ![r] = @ \o <<"token_error", "raise">>]
            /\ UNCHANGED <<view, users>>
       ELSE IF ~TokenGiven(token)
       THEN /\ view' = [view EXCEPT ![r] = _add_errors(@, [auth |-> MsgAuth])]
            /\ result' = [result EXCEPT ![r] = "response"]
            /\ trace' = [trace EXCEPT ![r] = @ \o <<TokenEvent(token), "return">>]
            /\ UNCHANGED users
       ELSE /\ users' = IF commit = "rejected" THEN users
                        ELSE Added(users, User(validator[r]))
            /\ view' = [view EXCEPT ![r] = Registered(@)]
            /\ result' = [result EXCEPT ![r] = "response"]
            /\ trace' = [trace EXCEPT ![r] =
                            @ \o <<TokenEvent(token), "add",
                                   IF commit = "rejected" THEN "commit_error"
                                   ELSE "commit",
                                   "return">>]
    /\ UNCHANGED <<task, errors, validator, checked, validated>>

\* Lines 131-139 from the return of get_token: an exception leaves post();
\* a false value is the auth error; a token is followed by add and commit,
\* the message and the cleared form.
PostAfterToken(r, token, commit) ==
    /\ pc[r] = "get_token"
    /\ pc' = [pc EXCEPT ![r] = "done"]
    /\ IF token = "error"
       THEN /\ result' = [result EXCEPT ![r] = "exception"]
            /\ trace' = [trace EXCEPT ![r] = @ \o <<"token_error", "raise">>]
            /\ UNCHANGED <<view, users>>
       ELSE IF ~TokenGiven(token)
       THEN /\ view' = [view EXCEPT ![r] = _add_errors(@, [auth |-> MsgAuth])]
            /\ result' = [result EXCEPT ![r] = "response"]
            /\ trace' = [trace EXCEPT ![r] =
                            @ \o <<TokenEvent(token),
                                   "return">>]
            /\ UNCHANGED users
       ELSE IF commit = "rejected"
       THEN /\ result' = [result EXCEPT ![r] = "exception"]
            /\ trace' = [trace EXCEPT ![r] =
                            @ \o <<TokenEvent(token),
                                   "add", "commit_error", "raise">>]
            /\ UNCHANGED <<view, users>>
       ELSE /\ users' = Added(users, User(validator[r]))
            /\ view' = [view EXCEPT ![r] = Registered(@)]
            /\ result' = [result EXCEPT ![r] = "response"]
            /\ trace' = [trace EXCEPT ![r] =
                            @ \o <<TokenEvent(token),
                                   "add", "commit", "return">>]
    /\ UNCHANGED <<task, errors, validator, checked, validated>>

(* ---------------------------- specifications --------------------------- *)

Step(r) ==
    \/ ValidateCredentials(r)
    \/ ValidateEmailsStart(r)
    \/ \E val \in {EmailNotValidError} \cup
                  {Returns(Normalized(a)) : a \in {k \in KindleEmails : SyntaxValid(k)}} :
            KindleEmailValidated(r, val)
    \/ \E val \in {EmailNotValidError} \cup
                  {Returns(Normalized(a)) : a \in {n \in NotifyEmails : SyntaxValid(n)}} :
            NotifyEmailValidated(r, val)
    \/ PostAfterGather(r)
    \/ \E token \in GetTokenOutcomes, commit \in CommitOutcomes :
            PostAfterToken(r, token, commit)

\* The loop as it would be if get_token were a blocking call: nothing else
\* runs while a request is in it.
LoopFree_GetTokenBlocks(r) == \A q \in Requests \ {r} : pc[q] # "get_token"

\* The waits of a request (lines 40, 115 and 131) are awaits: while a
\* request is suspended in one, the loop runs whatever other request is
\* ready.
LoopFree(r) == TRUE

\* One request posting one of Submissions and running its coroutines.
RequestStep(r) ==
    /\ LoopFree(r)
    /\ \/ \E data \in Submissions : ReceivePost(r, data)
       \/ Step(r)

\* Concurrent requests on one loop: a step of any request the loop can run.
Next ==
    \E r \in {q \in Requests : LoopFree(q)} :
        \/ \E data \in Submissions : ReceivePost(r, data)
        \/ Step(r)

Spec == Init /\ [][Next]_vars

\* The forms of Submissions that pass both validations: a request posting
\* one goes through every await of post().
LiveSubmissions ==
    {d \in Submissions : d.username = <<"alice">> /\ d.password # << >>}

\* One request posting one of LiveSubmissions and running its coroutines.
LiveStep(r) ==
    /\ LoopFree(r)
    /\ \/ \E data \in LiveSubmissions : ReceivePost(r, data)
       \/ Step(r)

LiveNext ==
    \E r \in {q \in Requests : LoopFree(q)} :
        \/ \E data \in LiveSubmissions : ReceivePost(r, data)
        \/ Step(r)

\* Concurrent requests with complete forms; which request the loop runs,
\* and whether an awaited call ever comes back, is left open here and is
\* assumed per request by the property that needs it.
LiveSpec == Init /\ [][LiveNext]_vars

\* One request, posting any form of AllSubmissions.
NextOne ==
    \/ \E data \in AllSubmissions : ReceivePost(1, data)
    \/ Step(1)

SpecOne == Init /\ [][NextOne]_vars

(* ------------------------------ histories ------------------------------ *)

Events(r) == {trace[r][i] : i \in 1..Len(trace[r])}

\* In trace[r], every occurrence of b comes after an occurrence of a.
Precedes(r, a, b) ==
    \A j \in 1..Len(trace[r]) :
        trace[r][j] = b => \E i \in 1..(j - 1) : trace[r][i] = a

Times(r, e) == Cardinality({i \in 1..Len(trace[r]) : trace[r][i] = e})

BothReturned(r) == task[r].emails = "done" /\ task[r].credentials = "done"

Committed == {r \in Requests : "commit" \in Events(r)}

Names == {Some(n) : n \in Usernames}

TypedValues(v) ==
    [username |-> v.username, password |-> v.password,
     kindleEmail |-> v.kindle_email, notifyEmail |-> v.notify_email]

(* -------------------------------- claims ------------------------------- *)

\* C1: in every reachable state the user table holds at most one row per
\* name, whatever the interleaving of the concurrent requests.
C1_UniqueNames == \A n \in Names : UserCount(users, n) <= 1

\* C2: within one request both validators have returned before the
\* uniqueness query, the query comes before the call of get_token, and
\* get_token has returned a token before the row is added and committed.
C2_StageOrder ==
    \A r \in Requests :
        /\ trace[r] # << >> => BothReturned(r)
        /\ Precedes(r, "gathered", "query")
        /\ Precedes(r, "query", "get_token")
        /\ Precedes(r, "get_token", "token")
        /\ Precedes(r, "get_token", "no_token")
        /\ Precedes(r, "get_token", "token_error")
        /\ Precedes(r, "token", "add")
        /\ Precedes(r, "add", "commit")
        /\ Precedes(r, "add", "commit_error")

C2_Witness ==
    \E r \in Requests :
        trace[r] = <<"gathered", "query", "get_token", "token", "add", "commit", "return">>

\* C3: a request whose validation fails (some field missing, empty or
\* invalid) returns the validation errors and makes no uniqueness query,
\* no get_token call and no insert.
C3_FailedValidationStops ==
    \A r \in Requests :
        ( /\ BothReturned(r)
          /\ \/ DOMAIN validator[r].errors # {}
             \/ \E k \in FieldKeys : TypedValues(validator[r])[k] = None )
        => /\ Events(r) \subseteq {"gathered", "return"}
           /\ users = EmptyBag
           /\ pc[r] \in {"gather", "done"}
           /\ pc[r] = "done" =>
                /\ result[r] = "response"
                /\ _template(view[r]).errors = validator[r].errors
                /\ DOMAIN validator[r].errors # {}

C3_Witness ==
    \E r \in Requests :
        /\ result[r] = "response"
        /\ DOMAIN _template(view[r]).errors = {"kindleEmail"}
        /\ trace[r] = <<"gathered", "return">>

\* C4: a request that leaves validation successfully while a user with its
\* username is stored ends there with the 'user' error, and a request with
\* the 'user' error has called get_token never and inserted nothing.
C4_RegisteredNameRefused ==
    /\ [][\A r \in Requests :
            ( /\ pc[r] = "gather"
              /\ pc'[r] # "gather"
              /\ DOMAIN validator[r].errors = {}
              /\ UserCount(users, validator[r].username) > 0 )
            => /\ pc'[r] = "done"
               /\ result'[r] = "response"
               /\ DOMAIN view'[r]._errors = {"user"}
               /\ view'[r]._errors["user"] = MsgUser
               /\ users' = users]_vars
    /\ [](\A r \in Requests :
            "user" \in DOMAIN view[r]._errors
            => /\ pc[r] = "done"
               /\ Events(r) \cap {"get_token", "add", "commit"} = {})

C4_Witness ==
    \E r \in Requests :
        /\ result[r] = "response"
        /\ "user" \in DOMAIN _template(view[r]).errors
        /\ UserCount(users, validator[r].username) = 1

\* C5: a request whose get_token call fails (false value or exception)
\* inserts nothing: the table holds exactly the rows of the requests that
\* committed, and this request is not one of them.
C5_FailedIssuanceInsertsNothing ==
    /\ BagCardinality(users) = Cardinality(Committed)
    /\ \A r \in Requests :
         Events(r) \cap {"no_token", "token_error"} # {}
         => /\ r \notin Committed
            /\ "add" \notin Events(r)
            /\ User(validator[r]) \in BagToSet(users)
                 => \E q \in Committed : User(validator[q]) = User(validator[r])

C5_Witness ==
    \E r \in Requests :
        /\ pc[r] = "done"
        /\ "no_token" \in Events(r)
        /\ \E q \in Requests : q # r /\ "token_error" \in Events(q)

\* C6: every failure of get_token (false value or exception out of the
\* call) ends the request with a response whose errors hold the key 'auth'.
C6_IssuanceFailureIsAuthError ==
    \A r \in Requests :
        (pc[r] = "done" /\ Events(r) \cap {"no_token", "token_error"} # {})
        => /\ result[r] = "response"
           /\ "auth" \in DOMAIN _template(view[r]).errors

\* The two outcomes of C7, and the exception that leaves post().
SuccessOutcome(r) ==
    /\ result[r] = "response"
    /\ DOMAIN _template(view[r]).errors = {}
    /\ _template(view[r]).messages = <<MsgRegistered>>
    /\ DOMAIN _template(view[r]).data = {}
    /\ Times(r, "commit") = 1

ErrorOutcome(r) ==
    /\ result[r] = "response"
    /\ DOMAIN _template(view[r]).errors # {}
    /\ _template(view[r]).messages = << >>
    /\ _template(view[r]).data = validator[r].data
    /\ Times(r, "commit") = 0

FatalOutcome(r) ==
    /\ result[r] = "exception"
    /\ view[r]._messages = << >>
    /\ Times(r, "commit") = 0

MessageIffInserted(r) == (view[r]._messages # << >>) <=> (r \in Committed)

C8_NoPasswordInResponse ==
    \A r \in Requests :
        (result[r] = "response" /\ ~Missing(validator[r].data, "password"))
        => \A k \in DOMAIN _template(view[r]).data :
               _template(view[r]).data[k] # validator[r].data["password"]

\* C9: a request has inserted its user only if get_token gave it a token,
\* and every completed request that was given a token has inserted its user.
C9_NoHalfApplied ==
    \A r \in Requests :
        /\ "commit" \in Events(r) => "token" \in Events(r)
        /\ (pc[r] = "done" /\ "token" \in Events(r)) => "commit" \in Events(r)

\* C10: once both validators have returned, a field's name is a key of
\* errors iff its typed value is None, and success holds iff errors is empty.
C10_ErrorsIffAbsent ==
    \A r \in Requests :
        BothReturned(r) =>
            /\ \A k \in FieldKeys :
                 (k \in DOMAIN validator[r].errors) <=> (TypedValues(validator[r])[k] = None)
            /\ DOMAIN validator[r].errors \subseteq FieldKeys
            /\ success(validator[r]) <=> (DOMAIN validator[r].errors = {})

C10_Witness ==
    \E r \in Requests :
        /\ BothReturned(r)
        /\ validator[r].errors = [kindleEmail |-> MsgKindleDomain]
        /\ validator[r].kindle_email = None
        /\ validator[r].notify_email # None
        /\ validator[r].username # None

\* The field is not in the form, or is the empty string.
AbsentOrEmpty(d, k) == k \notin DOMAIN d \/ d[k] = << >>

CredentialKeys == {"username", "password"}
EmailKeys      == {"kindleEmail", "notifyEmail"}

KindleSuffix(a) == EndsWith(a, AtKindleCom) \/ EndsWith(a, AtFreeKindleCom)

\* The errors each concern has found by itself: read from the form and
\* from what validate_email gave.
CredentialErrorKeys(r) ==
    {k \in CredentialKeys : AbsentOrEmpty(validator[r].data, k)}

EmailErrorKeys(r) ==
    {k \in EmailKeys :
        \/ AbsentOrEmpty(validator[r].data, k)
        \/ /\ k \in DOMAIN validated[r]
           /\ \/ validated[r][k].raises
              \/ k = "kindleEmail" /\ ~KindleSuffix(validated[r][k].email)}

\* C11: whatever the order in which validate_credentials and validate_emails
\* run and return, an error found by one is in validator.errors from its
\* return on, the errors after both are the union of the two, and that
\* union is what the response gets.
C11_ErrorsMerged ==
    \A r \in Requests :
        /\ task[r].credentials = "done"
             => CredentialErrorKeys(r) \subseteq DOMAIN validator[r].errors
        /\ task[r].emails = "done"
             => EmailErrorKeys(r) \subseteq DOMAIN validator[r].errors
        /\ BothReturned(r)
             => DOMAIN validator[r].errors = CredentialErrorKeys(r) \cup EmailErrorKeys(r)
        /\ result[r] = "response"
             => \A k \in DOMAIN validator[r].errors :
                    /\ k \in DOMAIN _template(view[r]).errors
                    /\ _template(view[r]).errors[k] = validator[r].errors[k]

C11_Witness ==
    \E r \in Requests :
        /\ result[r] = "response"
        /\ CredentialErrorKeys(r) = {"password"}
        /\ "kindleEmail" \in DOMAIN validated[r]
        /\ validated[r]["kindleEmail"].raises
        /\ DOMAIN _template(view[r]).errors = {"password", "kindleEmail"}

\* C12 as stated: a non-empty kindleEmail that is syntactically invalid has
\* the validity error; one that is syntactically valid has the domain error
\* when it lacks the suffix and no error when it has it; a syntactically
\* valid notifyEmail has no error.
C12_BySyntax ==
    \A r \in Requests :
        task[r].emails = "done" =>
            LET d == validator[r].data
                e == validator[r].errors
            IN  /\ ~AbsentOrEmpty(d, "kindleEmail") =>
                    IF ~SyntaxValid(d["kindleEmail"])
                    THEN "kindleEmail" \in DOMAIN e /\ e["kindleEmail"] = MsgKindleValid
                    ELSE IF ~KindleSuffix(Normalized(d["kindleEmail"]))
                    THEN "kindleEmail" \in DOMAIN e /\ e["kindleEmail"] = MsgKindleDomain
                    ELSE "kindleEmail" \notin DOMAIN e
                /\ (~AbsentOrEmpty(d, "notifyEmail") /\ SyntaxValid(d["notifyEmail"]))
                      => "notifyEmail" \notin DOMAIN e

\* C12, amended: a non-empty kindleEmail that validate_email rejects (always
\* so when its syntax is invalid) has the validity error; one that
\* validate_email returns has the domain error when the returned address
\* lacks the suffix, and no error and kindle_email set to it when it has the
\* suffix; a notifyEmail that validate_email returns has no error, whatever
\* its domain.
C12_ByValidateEmail ==
    \A r \in Requests :
        task[r].emails = "done" =>
            LET d == validator[r].data
                e == validator[r].errors
                val == validated[r]
            IN  /\ ~AbsentOrEmpty(d, "kindleEmail") =>
                    /\ "kindleEmail" \in DOMAIN val
                    /\ ~SyntaxValid(d["kindleEmail"]) => val["kindleEmail"].raises
                    /\ ~val["kindleEmail"].raises
                          => val["kindleEmail"].email = Normalized(d["kindleEmail"])
                    /\ IF val["kindleEmail"].raises
                       THEN /\ "kindleEmail" \in DOMAIN e
                            /\ e["kindleEmail"] = MsgKindleValid
                            /\ validator[r].kindle_email = None
                       ELSE IF ~KindleSuffix(val["kindleEmail"].email)
                       THEN /\ "kindleEmail" \in DOMAIN e
                            /\ e["kindleEmail"] = MsgKindleDomain
                            /\ validator[r].kindle_email = None
                       ELSE /\ "kindleEmail" \notin DOMAIN e
                            /\ validator[r].kindle_email = Some(val["kindleEmail"].email)
                /\ ~AbsentOrEmpty(d, "notifyEmail") =>
                    /\ "notifyEmail" \in DOMAIN val
                    /\ IF val["notifyEmail"].raises
                       THEN /\ "notifyEmail" \in DOMAIN e
                            /\ e["notifyEmail"] = MsgNotifyValid
                       ELSE /\ "notifyEmail" \notin DOMAIN e
                            /\ validator[r].notify_email = Some(val["notifyEmail"].email)

C12_Witness ==
    \E r \in Requests :
        /\ task[r].emails = "done"
        /\ ~AbsentOrEmpty(validator[r].data, "kindleEmail")
        /\ validator[r].data["kindleEmail"] = BobKindle
        /\ validator[r].kindle_email = Some(<<"Bob", "@", "kindle", ".", "com">>)
        /\ validator[r].notify_email = Some(<<"alice", "@", "example", ".", "com">>)

\* C13: the errors of a response are field errors alone, or 'user' alone,
\* or 'auth' alone; and every invalid field of the form is among them.
C13_StagesNotMixed ==
    \A r \in Requests :
        result[r] = "response" =>
            LET keys == DOMAIN _template(view[r]).errors
            IN  /\ keys \subseteq FieldKeys \cup StageKeys
                /\ keys \cap StageKeys # {} => Cardinality(keys) = 1
                /\ CredentialErrorKeys(r) \cup EmailErrorKeys(r) \subseteq keys
                /\ \A k \in FieldKeys : TypedValues(validator[r])[k] = None => k \in keys

C13_Witness ==
    /\ \E r \in Requests :
         DOMAIN _template(view[r]).errors = {"password", "kindleEmail", "notifyEmail"}
    /\ \E r \in Requests : DOMAIN _template(view[r]).errors = {"auth"}

\* C14: every row of the user table is the User of a request that committed
\* it, with that request's non-empty username as name, a kindle_mail that
\* ends with @kindle.com or @free.kindle.com, and a syntactically valid
\* email.
C14_StoredUsersValid ==
    \A u \in BagToSet(users) :
        /\ \E r \in Committed :
             /\ u = User(validator[r])
             /\ ~AbsentOrEmpty(validator[r].data, "username")
             /\ u.name = Some(validator[r].data["username"])
        /\ u.kindle_mail # None
        /\ KindleSuffix(u.kindle_mail[1])
        /\ u.email # None
        /\ SyntaxValid(u.email[1])

C14_Witness ==
    \E u \in BagToSet(users) :
        /\ u.name = Some(<<"bob">>)
        /\ u.kindle_mail = Some(<<"Bob", "@", "kindle", ".", "com">>)

C16_RejectedInsertIsFatal ==
    \A r \in Requests :
        "commit_error" \in Events(r) =>
            /\ pc[r] = "done"
            /\ result[r] = "exception"
            /\ DOMAIN view[r]._errors = {}
            /\ view[r]._messages = << >>
            /\ view[r]._data = validator[r].data
            /\ DOMAIN view[r]._data = FieldKeys
            /\ r \notin Committed

C16_Witness ==
    \E r \in Requests : \E q \in Requests \ {r} :
        /\ "commit_error" \in Events(r)
        /\ q \in Committed
        /\ validator[q].username = validator[r].username

\* C17: only the present, non-empty kindleEmail and notifyEmail go to
\* validate_email, each of them does so whatever the other's result, and an
\* absent or empty field has the presence error of its validator.
PresenceMsg ==
    [username |-> MsgUsername, password |-> MsgPassword,
     kindleEmail |-> MsgKindleEmpty, notifyEmail |-> MsgNotifyEmpty]

C17_PresenceBeforeSemantics ==
    \A r \in Requests :
        LET d == validator[r].data
            e == validator[r].errors
            present == {k \in EmailKeys : ~AbsentOrEmpty(d, k)}
        IN  /\ checked[r] \subseteq present
            /\ DOMAIN validated[r] \subseteq checked[r]
            /\ task[r].emails = "done" =>
                 /\ checked[r] = present
                 /\ DOMAIN validated[r] = present
                 /\ \A k \in EmailKeys : AbsentOrEmpty(d, k) =>
                        k \in DOMAIN e /\ e[k] = PresenceMsg[k]
            /\ task[r].credentials = "done" =>
                 \A k \in CredentialKeys : AbsentOrEmpty(d, k) =>
                        k \in DOMAIN e /\ e[k] = PresenceMsg[k]

C17_Witness ==
    \E r \in Requests :
        /\ BothReturned(r)
        /\ DOMAIN validator[r].data = FieldKeys
        /\ validator[r].data["username"] = << >>
        /\ DOMAIN validated[r] = EmailKeys
        /\ validated[r]["kindleEmail"].raises
        /\ ~validated[r]["notifyEmail"].raises
        /\ DOMAIN validator[r].errors = {"username", "kindleEmail"}

\* C18: no step removes or changes a row of the user table; the table
\* changes only in the step in which a request succeeds, by the one row of
\* that request; and a request calls get_token and adds at most once.
C18_InsertOnly ==
    /\ [][/\ \A u \in BagToSet(users) :
                u \in BagToSet(users') /\ CopiesIn(u, users') >= CopiesIn(u, users)
          /\ \A r \in Requests :
                (r \notin Committed /\ r \in Committed')
                    => /\ users' = users (+) SetToBag({User(validator[r])})
                       /\ SuccessOutcome(r)'
          /\ users' # users
                => \E r \in Requests : r \notin Committed /\ r \in Committed']_vars
    /\ [](\A r \in Requests :
            /\ Times(r, "get_token") <= 1
            /\ Times(r, "add") <= 1
            /\ Times(r, "commit") <= 1)

C18_Witness ==
    /\ BagCardinality(users) = 2
    /\ Cardinality(BagToSet(users)) = 2
    /\ Committed = Requests

\* C19: a request whose own ready coroutines are run in turn, and whose
\* executor jobs, get_token call and commit come back, ends with a response
\* or with an exception, whether or not any other request ever takes a
\* step.
C19_EveryRequestCompletes ==
    \A r \in Requests :
        WF_vars(LiveStep(r)) =>
            <>(pc[r] = "done" /\ result[r] \in {"response", "exception"})

C19_Witness ==
    /\ \A r \in Requests : pc[r] = "done"
    /\ \E r \in Requests : result[r] = "exception"
    /\ \E r \in Requests : result[r] = "response"

=============================================================================
